---- MODULE Spec2Model ----
(***************************************************************************)
(* Process table, scheduler, sleep/wakeup, fork/exit/wait and the signal   *)
(* subsystem of kernel/proc.c, as a state machine.                         *)
(*                                                                         *)
(* A kernel thread (a process inside a kernel call) takes one step per     *)
(* lock-protected section: a step begins where the code may have to wait   *)
(* for a spinlock and runs to the next such place; a scan of the table     *)
(* runs on to the next slot it does something with.  Spinlocks are owned   *)
(* by CPUs, as in the kernel: lock[p] is 0 or the CPU that holds p->lock.  *)
(***************************************************************************)
EXTENDS Integers, FiniteSets, Sequences, TLC

\* ---------------------------------------------------------------- bounds
NPROC == 3
NCPU == 2
MaxPid == 3

\* ------------------------------------------------------- program constants
SIG_DFL == 0
SIG_IGN == 1
SIGKILL == 9
SIGSTOP == 17
SIGCONT == 19
NSIG == 32
PGSIZE == 4096
TFSIZE == 288
STUBSIZE == 8

Procs == 1 .. NPROC
CPUs == 1 .. NCPU
Sigs == 0 .. (NSIG - 1)
\* userinit() stores the first allocated record in initproc: slot 1
initproc == 1

VARIABLES
  state, pid, parent, chan, killed, xstate, lock,
  signal_handlers, signals_mask, pending_signals, stopped, signal_handling,
  signals_mask_backup, user_tf_backup,
  trapframe, umem,
  wait_lock, nextpid, cpu_proc, sidx,
  pc, loc, ret, panicked

ptable == <<state, pid, parent, chan, killed, xstate>>
sigstate == <<signal_handlers, signals_mask, pending_signals, stopped,
              signal_handling, signals_mask_backup, user_tf_backup>>
usr == <<trapframe, umem>>
cpuv == <<cpu_proc, sidx>>
vars == <<ptable, lock, sigstate, usr, wait_lock, nextpid, cpuv, pc, loc, ret,
          panicked>>

\* ---------------------------------------------------------------- helpers
ZeroTF == [epc |-> 0, sp |-> 0, a0 |-> 0, ra |-> 0]
\* userinit(): epc = 0, sp = PGSIZE
InitTF == [epc |-> 0, sp |-> PGSIZE, a0 |-> 0, ra |-> 0]
\* user memory a process owns: the word wait() copies a status to, the trap
\* frame usersignalhandler() pushes on the user stack (at, frame), the place
\* it copies the sigret stub to, and the word a program passes to sigaction()
\* as oldact
EmptyMem == [status |-> 0, at |-> 0, frame |-> ZeroTF, stub |-> 0, old |-> 0]
LocInit == [i |-> 0, j |-> 0, havekids |-> FALSE, np |-> 0, a1 |-> 0, a2 |-> 0]
DflHandlers == [s \in Sigs |-> SIG_DFL]

OnCpu(p) == \E c \in CPUs : cpu_proc[c] = p
CpuOf(p) == CHOOSE c \in CPUs : cpu_proc[c] = p
\* mycpu()->noff: the spinlocks this CPU holds
noff(c) == Cardinality({q \in Procs : lock[q] = c}) + (IF wait_lock = c THEN 1 ELSE 0)
NextIdx(i) == IF i = NPROC THEN 1 ELSE i + 1
Min(S) == CHOOSE x \in S : \A y \in S : x <= y

\* ret[p] is the value the last kernel call of p returned to user mode; it is
\* consumed (0) once p enters the kernel again
\* a kernel thread can take a step: it is on a CPU and the kernel is alive
Runs(p) == panicked = "none" /\ OnCpu(p)

\* ------------------------------------------------------------- scheduler
\* a scheduler() that also picks a record that sleeps
SchedulerPicks_Sleeping(p) == state[p] \in {"RUNNABLE", "SLEEPING"}

\* a scheduler() that also picks a record that is RUNNING
SchedulerPicks_Running(p) == state[p] \in {"RUNNABLE", "RUNNING"}

\* scheduler(): the test under p->lock that picks the record
SchedulerPicks(p) == state[p] = "RUNNABLE"

\* scheduler(): one turn of the for loop at slot sidx[c], up to swtch()
Scheduler(c) ==
  /\ panicked = "none"
  /\ cpu_proc[c] = 0
  /\ LET p == sidx[c] IN
     /\ lock[p] = 0
     /\ IF SchedulerPicks(p)
        THEN /\ state' = [state EXCEPT ![p] = "RUNNING"]
             /\ cpu_proc' = [cpu_proc EXCEPT ![c] = p]
             /\ lock' = [lock EXCEPT ![p] = c]
             /\ UNCHANGED sidx
        ELSE /\ sidx' = [sidx EXCEPT ![c] = NextIdx(p)]
             /\ UNCHANGED <<state, cpu_proc, lock>>
  /\ UNCHANGED <<pid, parent, chan, killed, xstate, sigstate, usr, wait_lock,
                 nextpid, pc, loc, ret, panicked>>

\* sched(): the fatal checks, given the locks the CPU holds once p->lock is
\* taken; the state has already been changed away from RUNNING by the caller
SchedOk(p, c, wl) ==
  /\ \A q \in Procs \ {p} : lock[q] # c
  /\ wl # c

\* sched(): panic("sched locks"), which halts the kernel
SchedPanic ==
  /\ panicked' = "sched locks"
  /\ UNCHANGED <<ptable, lock, sigstate, usr, wait_lock, nextpid, cpuv, pc, loc,
                 ret>>

\* swtch() back to scheduler(), which clears c->proc, releases p->lock and
\* moves on to the next slot
SwtchCpu(c) == [cpu_proc EXCEPT ![c] = 0]
SwtchIdx(c) == [sidx EXCEPT ![c] = NextIdx(sidx[c])]

\* yield(), called for a timer interrupt in user mode
Yield(p) ==
  /\ Runs(p)
  /\ pc[p] = "user"
  /\ lock[p] = 0
  /\ LET c == CpuOf(p) IN
     IF SchedOk(p, c, wait_lock)
     THEN /\ state' = [state EXCEPT ![p] = "RUNNABLE"]
          /\ cpu_proc' = SwtchCpu(c)
          /\ sidx' = SwtchIdx(c)
          /\ pc' = [pc EXCEPT ![p] = "yield_ret"]
          /\ ret' = [ret EXCEPT ![p] = 0]
          /\ UNCHANGED <<pid, parent, chan, killed, xstate, lock, sigstate, usr,
                         wait_lock, nextpid, loc, panicked>>
     ELSE SchedPanic

\* yield() after sched() returns: release(&p->lock)
YieldRet(p) ==
  /\ Runs(p)
  /\ pc[p] = "yield_ret"
  /\ lock' = [lock EXCEPT ![p] = 0]
  /\ pc' = [pc EXCEPT ![p] = "user"]
  /\ UNCHANGED <<ptable, sigstate, usr, wait_lock, nextpid, cpuv, loc, ret,
                 panicked>>

\* forkret(): release(&myproc()->lock), then return to user space
Forkret(p) ==
  /\ Runs(p)
  /\ pc[p] = "forkret"
  /\ lock' = [lock EXCEPT ![p] = 0]
  /\ pc' = [pc EXCEPT ![p] = "user"]
  /\ UNCHANGED <<ptable, sigstate, usr, wait_lock, nextpid, cpuv, loc, ret,
                 panicked>>

\* ------------------------------------------------------------ fork
\* freeproc() that leaves the slot's state as it was
freeproc_KeepState(q) ==
  /\ UNCHANGED state
  /\ pid' = [pid EXCEPT ![q] = 0]
  /\ parent' = [parent EXCEPT ![q] = 0]
  /\ chan' = [chan EXCEPT ![q] = 0]
  /\ killed' = [killed EXCEPT ![q] = FALSE]
  /\ xstate' = [xstate EXCEPT ![q] = 0]
  /\ trapframe' = [trapframe EXCEPT ![q] = ZeroTF]

\* freeproc(q): p->lock of q is held by the caller
freeproc(q) ==
  /\ state' = [state EXCEPT ![q] = "UNUSED"]
  /\ pid' = [pid EXCEPT ![q] = 0]
  /\ parent' = [parent EXCEPT ![q] = 0]
  /\ chan' = [chan EXCEPT ![q] = 0]
  /\ killed' = [killed EXCEPT ![q] = FALSE]
  /\ xstate' = [xstate EXCEPT ![q] = 0]
  /\ trapframe' = [trapframe EXCEPT ![q] = ZeroTF]

\* proc_freepagetable(): the user memory of q is gone
FreeMem(um, q) == [um EXCEPT ![q] = EmptyMem]

\* allocpid() that hands out nextpid and leaves it as it is
allocpid_NoIncrement == nextpid

\* allocpid(): the value of nextpid once it has handed out nextpid
allocpid == nextpid + 1

\* what kalloc(), proc_pagetable() and uvmcopy() can answer
ForkOutcomes == {"ok", "kalloc", "pagetable", "uvmcopy"}

\* fork() that hands the parent's pending signals on to the child
ForkSignals_Inherit(p) ==
  [handlers |-> signal_handlers[p], mask |-> signals_mask[p],
   pending |-> pending_signals[p]]

\* fork(): the signal state the child of p starts with
ForkSignals(p) ==
  [handlers |-> signal_handlers[p], mask |-> signals_mask[p], pending |-> {}]

\* a failure after allocpid() that returns -1 without freeproc(): the slot
\* stays USED under the pid it was given
ForkRollback_Leak(p, i) ==
  /\ pid' = [pid EXCEPT ![i] = nextpid]
  /\ state' = [state EXCEPT ![i] = "USED"]
  /\ UNCHANGED <<parent, chan, killed, xstate, usr>>
  /\ signal_handlers' = [signal_handlers EXCEPT ![i] = DflHandlers]
  /\ signals_mask' = [signals_mask EXCEPT ![i] = {}]
  /\ pending_signals' = [pending_signals EXCEPT ![i] = {}]
  /\ pc' = [pc EXCEPT ![p] = "user"]
  /\ loc' = [loc EXCEPT ![p] = LocInit]
  /\ ret' = [ret EXCEPT ![p] = -1]

\* allocproc() and fork(): kalloc(), proc_pagetable() or uvmcopy() failed on
\* the slot i that was claimed: freeproc(), release(&np->lock), return -1
ForkRollback(p, i) ==
  /\ freeproc(i)
  /\ umem' = FreeMem(umem, i)
  /\ signal_handlers' = [signal_handlers EXCEPT ![i] = DflHandlers]
  /\ signals_mask' = [signals_mask EXCEPT ![i] = {}]
  /\ pending_signals' = [pending_signals EXCEPT ![i] = {}]
  /\ pc' = [pc EXCEPT ![p] = "user"]
  /\ loc' = [loc EXCEPT ![p] = LocInit]
  /\ ret' = [ret EXCEPT ![p] = -1]

\* fork() entered from user mode
ForkStart(p) ==
  /\ Runs(p)
  /\ pc[p] = "user"
  /\ nextpid <= MaxPid
  /\ pc' = [pc EXCEPT ![p] = "allocproc"]
  /\ loc' = [loc EXCEPT ![p] = [LocInit EXCEPT !.i = 1]]
  /\ ret' = [ret EXCEPT ![p] = 0]
  /\ UNCHANGED <<ptable, lock, sigstate, usr, wait_lock, nextpid, cpuv, panicked>>

\* allocproc(): one turn of the scan at slot loc[p].i; on an UNUSED slot the
\* rest of allocproc() and fork() up to release(&np->lock), all under np->lock
AllocProc(p) ==
  /\ Runs(p)
  /\ pc[p] = "allocproc"
  /\ LET i == loc[p].i IN
     /\ lock[i] = 0
     /\ IF state[i] # "UNUSED"
        THEN /\ IF i = NPROC
                THEN /\ pc' = [pc EXCEPT ![p] = "user"]
                     /\ loc' = [loc EXCEPT ![p] = LocInit]
                     /\ ret' = [ret EXCEPT ![p] = -1]
                ELSE /\ loc' = [loc EXCEPT ![p].i = i + 1]
                     /\ UNCHANGED <<pc, ret>>
             /\ UNCHANGED <<ptable, sigstate, usr, nextpid>>
        ELSE \E outcome \in ForkOutcomes :
             /\ nextpid' = allocpid
             /\ stopped' = [stopped EXCEPT ![i] = FALSE]
             /\ signal_handling' = [signal_handling EXCEPT ![i] = FALSE]
             /\ UNCHANGED <<signals_mask_backup, user_tf_backup>>
             /\ IF outcome = "ok"
                THEN /\ pid' = [pid EXCEPT ![i] = nextpid]
                     /\ state' = [state EXCEPT ![i] = "USED"]
                     /\ signal_handlers' =
                          [signal_handlers EXCEPT ![i] = ForkSignals(p).handlers]
                     /\ signals_mask' =
                          [signals_mask EXCEPT ![i] = ForkSignals(p).mask]
                     /\ pending_signals' =
                          [pending_signals EXCEPT ![i] = ForkSignals(p).pending]
                     /\ trapframe' =
                          [trapframe EXCEPT ![i] = [trapframe[p] EXCEPT !.a0 = 0]]
                     /\ umem' = [umem EXCEPT ![i] = umem[p]]
                     /\ pc' = [pc EXCEPT ![p] = "fork_parent", ![i] = "forkret"]
                     /\ loc' = [loc EXCEPT ![p] = [LocInit EXCEPT !.np = i,
                                                                  !.a1 = nextpid],
                                           ![i] = LocInit]
                     /\ ret' = [ret EXCEPT ![i] = 0]
                     /\ UNCHANGED <<parent, chan, killed, xstate>>
                ELSE ForkRollback(p, i)
  /\ UNCHANGED <<lock, wait_lock, cpuv, panicked>>

\* fork(): acquire(&wait_lock); np->parent = p; release(&wait_lock)
ForkParent(p) ==
  /\ Runs(p)
  /\ pc[p] = "fork_parent"
  /\ wait_lock = 0
  /\ parent' = [parent EXCEPT ![loc[p].np] = p]
  /\ pc' = [pc EXCEPT ![p] = "fork_runnable"]
  /\ UNCHANGED <<state, pid, chan, killed, xstate, lock, sigstate, usr,
                 wait_lock, nextpid, cpuv, loc, ret, panicked>>

\* fork(): acquire(&np->lock); np->state = RUNNABLE; release; return pid
ForkRunnable(p) ==
  /\ Runs(p)
  /\ pc[p] = "fork_runnable"
  /\ lock[loc[p].np] = 0
  /\ state' = [state EXCEPT ![loc[p].np] = "RUNNABLE"]
  /\ pc' = [pc EXCEPT ![p] = "user"]
  /\ ret' = [ret EXCEPT ![p] = loc[p].a1]
  /\ loc' = [loc EXCEPT ![p] = LocInit]
  /\ UNCHANGED <<pid, parent, chan, killed, xstate, lock, sigstate, usr,
                 wait_lock, nextpid, cpuv, panicked>>

\* ------------------------------------------------------------ wakeup
\* wakeup(): the test applied to slot q, under q's lock
WakeupCond(q, ch) == state[q] = "SLEEPING" /\ chan[q] = ch

\* wakeup() skips myproc(): the first slot to visit from j on, NPROC + 1 if none
WakeupFrom(p, j) == IF j = p THEN j + 1 ELSE j

\* wakeup(ch) by p, one turn of its loop at slot loc[p].j; `back` is the
\* place wakeup() returns to
WakeupTurn(p, ch, back) ==
  LET j == loc[p].j
      nj == WakeupFrom(p, j + 1) IN
  /\ lock[j] = 0
  /\ state' = IF WakeupCond(j, ch) THEN [state EXCEPT ![j] = "RUNNABLE"] ELSE state
  /\ IF nj > NPROC
     THEN /\ pc' = [pc EXCEPT ![p] = back]
          /\ loc' = [loc EXCEPT ![p].j = 0]
     ELSE /\ loc' = [loc EXCEPT ![p].j = nj]
          /\ UNCHANGED pc
  /\ UNCHANGED <<pid, parent, chan, killed, xstate, lock, sigstate, usr,
                 wait_lock, nextpid, cpuv, ret, panicked>>

\* ------------------------------------------------------------ exit
ExitStatuses == {1, 2}

\* the children of p from slot i on (read under wait_lock)
ChildrenFrom(p, i) == {k \in Procs : k >= i /\ parent[k] = p}

\* exit(status) entered from user mode, up to acquire(&wait_lock)
ExitStart(p, status) ==
  /\ Runs(p)
  /\ pc[p] = "user"
  /\ p # initproc
  /\ wait_lock = 0
  /\ wait_lock' = CpuOf(p)
  /\ pc' = [pc EXCEPT ![p] = "reparent"]
  /\ loc' = [loc EXCEPT ![p] = [LocInit EXCEPT !.i = 1, !.a1 = status]]
  /\ ret' = [ret EXCEPT ![p] = 0]
  /\ UNCHANGED <<ptable, lock, sigstate, usr, nextpid, cpuv, panicked>>

\* reparent(p): the loop runs on to the next child of p, hands it to initproc
\* and calls wakeup(initproc); with no child left it returns to exit(), which
\* calls wakeup(p->parent)
Reparent(p) ==
  /\ Runs(p)
  /\ pc[p] = "reparent"
  /\ LET kids == ChildrenFrom(p, loc[p].i) IN
     IF kids = {}
     THEN /\ pc' = [pc EXCEPT ![p] = "exit_wakeup"]
          /\ loc' = [loc EXCEPT ![p].i = 0, ![p].j = WakeupFrom(p, 1)]
          /\ UNCHANGED parent
     ELSE /\ parent' = [parent EXCEPT ![Min(kids)] = initproc]
          /\ pc' = [pc EXCEPT ![p] = "reparent_wakeup"]
          /\ loc' = [loc EXCEPT ![p].i = Min(kids) + 1, ![p].j = WakeupFrom(p, 1)]
  /\ UNCHANGED <<state, pid, chan, killed, xstate, lock, sigstate, usr,
                 wait_lock, nextpid, cpuv, ret, panicked>>

\* reparent() that hands the child over without wakeup(initproc)
ReparentWakeup_Skip(p) ==
  /\ Runs(p)
  /\ pc[p] = "reparent_wakeup"
  /\ pc' = [pc EXCEPT ![p] = "reparent"]
  /\ loc' = [loc EXCEPT ![p].j = 0]
  /\ UNCHANGED <<ptable, lock, sigstate, usr, wait_lock, nextpid, cpuv, ret,
                 panicked>>

\* reparent(): wakeup(initproc)
ReparentWakeup(p) ==
  /\ Runs(p)
  /\ pc[p] = "reparent_wakeup"
  /\ WakeupTurn(p, initproc, "reparent")

\* exit() that goes on to become a ZOMBIE without wakeup(p->parent)
ExitWakeup_Skip(p) ==
  /\ Runs(p)
  /\ pc[p] = "exit_wakeup"
  /\ pc' = [pc EXCEPT ![p] = "exit_zombie"]
  /\ loc' = [loc EXCEPT ![p].j = 0]
  /\ UNCHANGED <<ptable, lock, sigstate, usr, wait_lock, nextpid, cpuv, ret,
                 panicked>>

\* exit(): wakeup(p->parent)
ExitWakeup(p) ==
  /\ Runs(p)
  /\ pc[p] = "exit_wakeup"
  /\ WakeupTurn(p, parent[p], "exit_zombie")

\* exit(): acquire(&p->lock); xstate; ZOMBIE; release(&wait_lock); sched()
ExitZombie(p) ==
  /\ Runs(p)
  /\ pc[p] = "exit_zombie"
  /\ lock[p] = 0
  /\ LET c == CpuOf(p) IN
     IF SchedOk(p, c, 0)
     THEN /\ xstate' = [xstate EXCEPT ![p] = loc[p].a1]
          /\ state' = [state EXCEPT ![p] = "ZOMBIE"]
          /\ wait_lock' = 0
          /\ cpu_proc' = SwtchCpu(c)
          /\ sidx' = SwtchIdx(c)
          /\ pc' = [pc EXCEPT ![p] = "zombie"]
          /\ loc' = [loc EXCEPT ![p] = LocInit]
          /\ UNCHANGED <<pid, parent, chan, killed, lock, sigstate, usr, nextpid,
                         ret, panicked>>
     ELSE SchedPanic

\* ------------------------------------------------------------ wait, sleep
\* user addresses wait() is given: 0 (no status wanted), one copyout() can
\* write, one it cannot
NullAddr == 0
GoodAddr == 1
BadAddr == 2

\* copyout() to a user address fails on an unmapped one
CopyoutFails(addr) == addr = BadAddr

\* wait(addr) entered from user mode, up to acquire(&wait_lock)
WaitStart(p, addr) ==
  /\ Runs(p)
  /\ pc[p] = "user"
  /\ wait_lock = 0
  /\ wait_lock' = CpuOf(p)
  /\ pc' = [pc EXCEPT ![p] = "wait_scan"]
  /\ loc' = [loc EXCEPT ![p] = [LocInit EXCEPT !.i = 1, !.a1 = addr]]
  /\ ret' = [ret EXCEPT ![p] = 0]
  /\ UNCHANGED <<ptable, lock, sigstate, usr, nextpid, cpuv, panicked>>

\* wait(): the scan runs on to the next child np of p and looks at it under
\* np->lock; after the last slot, the test of havekids and p->killed, then
\* the call of sleep(p, &wait_lock)
WaitScan(p) ==
  /\ Runs(p)
  /\ pc[p] = "wait_scan"
  /\ LET kids == ChildrenFrom(p, loc[p].i)
         np == Min(kids)
         addr == loc[p].a1 IN
     IF kids = {}
     THEN /\ IF ~loc[p].havekids \/ killed[p]
             THEN /\ wait_lock' = 0
                  /\ pc' = [pc EXCEPT ![p] = "user"]
                  /\ loc' = [loc EXCEPT ![p] = LocInit]
                  /\ ret' = [ret EXCEPT ![p] = -1]
             ELSE /\ pc' = [pc EXCEPT ![p] = "sleep"]
                  /\ loc' = [loc EXCEPT ![p].a2 = p]
                  /\ UNCHANGED <<wait_lock, ret>>
          /\ UNCHANGED <<ptable, usr>>
     ELSE /\ lock[np] = 0
          /\ IF state[np] = "ZOMBIE"
             THEN /\ IF addr # NullAddr /\ CopyoutFails(addr)
                     THEN /\ ret' = [ret EXCEPT ![p] = -1]
                          /\ UNCHANGED <<ptable, usr>>
                     ELSE /\ freeproc(np)
                          /\ umem' = FreeMem([umem EXCEPT ![p].status =
                                       IF addr = NullAddr THEN @ ELSE xstate[np]], np)
                          /\ ret' = [ret EXCEPT ![p] = pid[np]]
                  /\ wait_lock' = 0
                  /\ pc' = [pc EXCEPT ![p] = "user"]
                  /\ loc' = [loc EXCEPT ![p] = LocInit]
             ELSE /\ loc' = [loc EXCEPT ![p].i = np + 1, ![p].havekids = TRUE]
                  /\ UNCHANGED <<ptable, usr, wait_lock, pc, ret>>
  /\ UNCHANGED <<lock, sigstate, nextpid, cpuv, panicked>>

\* sleep() that lets go of lk without first taking p->lock
SleepAcquire_NoLock(p) ==
  /\ Runs(p)
  /\ pc[p] = "sleep"
  /\ pc' = [pc EXCEPT ![p] = "sleep_release"]
  /\ UNCHANGED <<ptable, lock, sigstate, usr, wait_lock, nextpid, cpuv, loc, ret,
                 panicked>>

\* sleep(chan, lk): acquire(&p->lock)
SleepAcquire(p) ==
  /\ Runs(p)
  /\ pc[p] = "sleep"
  /\ lock[p] = 0
  /\ lock' = [lock EXCEPT ![p] = CpuOf(p)]
  /\ pc' = [pc EXCEPT ![p] = "sleep_release"]
  /\ UNCHANGED <<ptable, sigstate, usr, wait_lock, nextpid, cpuv, loc, ret,
                 panicked>>

\* sleep(): release(lk)   (lk is wait_lock: wait() is the caller)
SleepRelease(p) ==
  /\ Runs(p)
  /\ pc[p] = "sleep_release"
  /\ wait_lock' = 0
  /\ pc' = [pc EXCEPT ![p] = "sleep_sched"]
  /\ UNCHANGED <<ptable, lock, sigstate, usr, nextpid, cpuv, loc, ret, panicked>>

\* sleep(): p->chan = chan; p->state = SLEEPING; sched()
SleepSched(p) ==
  /\ Runs(p)
  /\ pc[p] = "sleep_sched"
  /\ LET c == CpuOf(p) IN
     IF SchedOk(p, c, wait_lock)
     THEN /\ chan' = [chan EXCEPT ![p] = loc[p].a2]
          /\ state' = [state EXCEPT ![p] = "SLEEPING"]
          /\ cpu_proc' = SwtchCpu(c)
          /\ sidx' = SwtchIdx(c)
          /\ lock' = [lock EXCEPT ![p] = 0]
          /\ pc' = [pc EXCEPT ![p] = "sleep_ret"]
          /\ UNCHANGED <<pid, parent, killed, xstate, sigstate, usr, wait_lock,
                         nextpid, loc, ret, panicked>>
     ELSE SchedPanic

\* sleep() after sched() returns: p->chan = 0; release(&p->lock)
SleepRet(p) ==
  /\ Runs(p)
  /\ pc[p] = "sleep_ret"
  /\ chan' = [chan EXCEPT ![p] = 0]
  /\ lock' = [lock EXCEPT ![p] = 0]
  /\ pc' = [pc EXCEPT ![p] = "sleep_reacq"]
  /\ UNCHANGED <<state, pid, parent, killed, xstate, sigstate, usr, wait_lock,
                 nextpid, cpuv, loc, ret, panicked>>

\* sleep(): acquire(lk), back in wait() at the top of for(;;)
SleepReacquire(p) ==
  /\ Runs(p)
  /\ pc[p] = "sleep_reacq"
  /\ wait_lock = 0
  /\ wait_lock' = CpuOf(p)
  /\ pc' = [pc EXCEPT ![p] = "wait_scan"]
  /\ loc' = [loc EXCEPT ![p].i = 1, ![p].havekids = FALSE, ![p].a2 = 0]
  /\ UNCHANGED <<ptable, lock, sigstate, usr, nextpid, cpuv, ret, panicked>>

\* ------------------------------------------------------------ specifications
\* the state userinit() leaves: the first process in slot 1, RUNNABLE, to
\* start in forkret(); every CPU at the top of scheduler()
InitBoot ==
  /\ state = [p \in Procs |-> IF p = initproc THEN "RUNNABLE" ELSE "UNUSED"]
  /\ pid = [p \in Procs |-> IF p = initproc THEN 1 ELSE 0]
  /\ parent = [p \in Procs |-> 0]
  /\ chan = [p \in Procs |-> 0]
  /\ killed = [p \in Procs |-> FALSE]
  /\ xstate = [p \in Procs |-> 0]
  /\ lock = [p \in Procs |-> 0]
  /\ signal_handlers = [p \in Procs |-> DflHandlers]
  /\ signals_mask = [p \in Procs |-> {}]
  /\ pending_signals = [p \in Procs |-> {}]
  /\ stopped = [p \in Procs |-> FALSE]
  /\ signal_handling = [p \in Procs |-> FALSE]
  /\ signals_mask_backup = [p \in Procs |-> {}]
  /\ user_tf_backup = [p \in Procs |-> 0]
  /\ trapframe = [p \in Procs |-> IF p = initproc THEN InitTF ELSE ZeroTF]
  /\ umem = [p \in Procs |-> EmptyMem]
  /\ wait_lock = 0
  /\ nextpid = 2
  /\ cpu_proc = [c \in CPUs |-> 0]
  /\ sidx = [c \in CPUs |-> 1]
  /\ pc = [p \in Procs |-> IF p = initproc THEN "forkret" ELSE "user"]
  /\ loc = [p \in Procs |-> LocInit]
  /\ ret = [p \in Procs |-> 0]
  /\ panicked = "none"

WaitAddrs == {NullAddr, GoodAddr, BadAddr}

\* fork, exit, wait, yield and the scheduler
NextLife ==
  \/ \E c \in CPUs : Scheduler(c)
  \/ \E p \in Procs : Yield(p)
  \/ \E p \in Procs : YieldRet(p)
  \/ \E p \in Procs : Forkret(p)
  \/ \E p \in Procs : ForkStart(p)
  \/ \E p \in Procs : AllocProc(p)
  \/ \E p \in Procs : ForkParent(p)
  \/ \E p \in Procs : ForkRunnable(p)
  \/ \E p \in Procs : \E st \in ExitStatuses : ExitStart(p, st)
  \/ \E p \in Procs : Reparent(p)
  \/ \E p \in Procs : ReparentWakeup(p)
  \/ \E p \in Procs : ExitWakeup(p)
  \/ \E p \in Procs : ExitZombie(p)
  \/ \E p \in Procs : \E a \in WaitAddrs : WaitStart(p, a)
  \/ \E p \in Procs : WaitScan(p)
  \/ \E p \in Procs : SleepAcquire(p)
  \/ \E p \in Procs : SleepRelease(p)
  \/ \E p \in Procs : SleepSched(p)
  \/ \E p \in Procs : SleepRet(p)
  \/ \E p \in Procs : SleepReacquire(p)

SpecLife == InitBoot /\ [][NextLife]_vars

\* a step of p inside the kernel (anything but entering it from user mode)
KernelStep(p) ==
  \/ YieldRet(p) \/ Forkret(p)
  \/ AllocProc(p) \/ ForkParent(p) \/ ForkRunnable(p)
  \/ Reparent(p) \/ ReparentWakeup(p) \/ ExitWakeup(p) \/ ExitZombie(p)
  \/ WaitScan(p)
  \/ SleepAcquire(p) \/ SleepRelease(p) \/ SleepSched(p) \/ SleepRet(p)
  \/ SleepReacquire(p)

\* the first process runs a wait() loop, with a status address that is
\* mapped, or none
InitWaits == \E a \in {NullAddr, GoodAddr} : WaitStart(initproc, a)

\* as NextLife, with wait() called by the first process only: the other
\* processes fork, exit and yield (their calls of wait() are in NextLife)
NextFair ==
  \/ \E c \in CPUs : Scheduler(c)
  \/ \E p \in Procs : Yield(p)
  \/ \E p \in Procs : ForkStart(p)
  \/ \E p \in Procs : \E st \in ExitStatuses : ExitStart(p, st)
  \/ InitWaits
  \/ \E p \in Procs : KernelStep(p)

\* what the machine guarantees: a CPU in scheduler() keeps scanning; a kernel
\* thread on a CPU keeps running and, spinning in acquire(), gets a lock that
\* is released again and again; the timer interrupt makes a process that
\* stays in user mode yield; the first process calls wait() again and again
FairLifeCond ==
  /\ \A c \in CPUs : WF_vars(Scheduler(c))
  /\ \A p \in Procs : SF_vars(KernelStep(p))
  /\ \A p \in Procs : WF_vars(Yield(p))
  /\ SF_vars(InitWaits)

FairLife == InitBoot /\ [][NextFair]_vars /\ FairLifeCond

\* ------------------------------------------------------------ signals
\* a mask as the uint the kernel keeps: the sum of 1 << k over its bits
RECURSIVE MaskInt(_)
MaskInt(m) ==
  IF m = {} THEN 0
  ELSE LET k == CHOOSE x \in m : TRUE IN 2 ^ k + MaskInt(m \ {k})

\* a sigprocmask() that stores the mask as it is given
Maskable_All(m) == m

\* ~(1 << SIGKILL | 1 << SIGSTOP) applied to a mask
Maskable(m) == m \ {SIGKILL, SIGSTOP}

\* is_pending_and_not_masked() that does not look at the mask
is_pending(p, k) == k \in pending_signals[p]

\* is_pending_and_not_masked(k) for myproc() = p
is_pending_and_not_masked(p, k) ==
  k \in pending_signals[p] /\ k \notin Maskable(signals_mask[p])

\* what the user program keeps at address 64: a struct sigaction, with the
\* entry point of the handler and the mask to run it under, which asks for
\* signal 6 and for SIGKILL
UserDesc == [a \in {64} |-> [sa_handler |-> 128, sigmask |-> {6, SIGKILL}]]

\* the arguments the calls are made with (NSIG is a signal number out of range)
KillPids == {0, 2, 3}
KillSigs == {5, SIGKILL, SIGSTOP, SIGCONT, NSIG}
MaskVals == {{}, {5, SIGKILL, SIGSTOP, SIGCONT}}
ActSigs == {5, SIGKILL, NSIG}
ActVals == {0, SIG_IGN, SIGCONT} \cup DOMAIN UserDesc
\* oldact: none, or the address of the word umem[p].old
OldActs == {0, 72}
\* the process that sends signals, and the processes that receive them
Senders == {initproc}
Receivers == Procs \ Senders

\* kill(): the slots its loop visits, the last one being the slot whose pid
\* matches, if any
KillScan(kpid) ==
  LET M == {j \in Procs : pid[j] = kpid} IN
  IF M = {} THEN Procs ELSE 1 .. Min(M)

\* kill(pid, signum).  The loop holds one record lock at a time and changes
\* nothing in a slot that does not match, so the call is one step, taken when
\* the locks it acquires are free.  acquire() panics on a lock this CPU holds
\* already; the return for a match that is killed, ZOMBIE or UNUSED is taken
\* with that record's lock held, and no release
Kill(p, kpid, signum) ==
  /\ Runs(p)
  /\ pc[p] = "user"
  /\ LET c == CpuOf(p)
         S == KillScan(kpid)
         t == Min({j \in Procs : pid[j] = kpid}) IN
     IF signum < 0 \/ signum > 31
     THEN /\ ret' = [ret EXCEPT ![p] = -1]
          /\ UNCHANGED <<lock, pending_signals, panicked>>
     ELSE IF \E j \in S : lock[j] = c
     THEN /\ \A j \in S : j < Min({k \in S : lock[k] = c}) => lock[j] = 0
          /\ panicked' = "acquire"
          /\ UNCHANGED <<lock, pending_signals, ret>>
     ELSE /\ \A j \in S : lock[j] = 0
          /\ IF \A j \in Procs : pid[j] # kpid
             THEN /\ ret' = [ret EXCEPT ![p] = -1]
                  /\ UNCHANGED <<lock, pending_signals>>
             ELSE IF killed[t] \/ state[t] \in {"ZOMBIE", "UNUSED"}
             THEN /\ lock' = [lock EXCEPT ![t] = c]
                  /\ ret' = [ret EXCEPT ![p] = -1]
                  /\ UNCHANGED pending_signals
             ELSE /\ pending_signals' = [pending_signals EXCEPT ![t] = @ \cup {signum}]
                  /\ ret' = [ret EXCEPT ![p] = 0]
                  /\ UNCHANGED lock
          /\ UNCHANGED panicked
  /\ UNCHANGED <<ptable, signal_handlers, signals_mask, stopped,
                 signal_handling, signals_mask_backup, user_tf_backup, usr,
                 wait_lock, nextpid, cpuv, pc, loc>>

\* kill() seen in two steps when it finds a live target t: this one runs the
\* loop up to acquire(&t->lock) and the tests under it; every other outcome
\* is that of Kill
KillLock(p, kpid, signum) ==
  LET c == CpuOf(p)
      S == KillScan(kpid)
      M == {j \in Procs : pid[j] = kpid}
      t == Min(M) IN
  IF /\ OnCpu(p) /\ signum >= 0 /\ signum <= 31 /\ M # {}
     /\ \A j \in S : lock[j] # c
     /\ ~killed[t] /\ state[t] \notin {"ZOMBIE", "UNUSED"}
  THEN /\ Runs(p)
       /\ pc[p] = "user"
       /\ \A j \in S : lock[j] = 0
       /\ lock' = [lock EXCEPT ![t] = c]
       /\ pc' = [pc EXCEPT ![p] = "kill_set"]
       /\ loc' = [loc EXCEPT ![p] = [LocInit EXCEPT !.np = t, !.a1 = signum]]
       /\ ret' = [ret EXCEPT ![p] = 0]
       /\ UNCHANGED <<ptable, sigstate, usr, wait_lock, nextpid, cpuv, panicked>>
  ELSE Kill(p, kpid, signum)

\* kill(): p->pending_signals |= op; release(&p->lock); return 0
KillSet(p) ==
  /\ Runs(p)
  /\ pc[p] = "kill_set"
  /\ pending_signals' = [pending_signals EXCEPT ![loc[p].np] = @ \cup {loc[p].a1}]
  /\ lock' = [lock EXCEPT ![loc[p].np] = 0]
  /\ pc' = [pc EXCEPT ![p] = "user"]
  /\ loc' = [loc EXCEPT ![p] = LocInit]
  /\ ret' = [ret EXCEPT ![p] = 0]
  /\ UNCHANGED <<ptable, signal_handlers, signals_mask, stopped,
                 signal_handling, signals_mask_backup, user_tf_backup, usr,
                 wait_lock, nextpid, cpuv, panicked>>

\* sigprocmask(mask): no lock; returns the old mask
Sigprocmask(p, mask) ==
  /\ Runs(p)
  /\ pc[p] = "user"
  /\ signals_mask' = [signals_mask EXCEPT ![p] = Maskable(mask)]
  /\ ret' = [ret EXCEPT ![p] = MaskInt(signals_mask[p])]
  /\ UNCHANGED <<ptable, lock, signal_handlers, pending_signals, stopped,
                 signal_handling, signals_mask_backup, user_tf_backup, usr,
                 wait_lock, nextpid, cpuv, pc, loc, panicked>>

\* sigaction(signum, act, oldact): no lock.  memmove(&oldact, ...) writes over
\* the kernel's own copy of the pointer oldact and nothing in user memory, so
\* the call does the same for every oldact; act = SIG_DFL has been refused as
\* act = 0 before it is compared; any other act is stored as the handler
Sigaction(p, signum, act, oldact) ==
  /\ Runs(p)
  /\ pc[p] = "user"
  /\ IF \/ signum < 0 \/ signum > 31
        \/ signum = SIGKILL \/ signum = SIGSTOP
        \/ act = 0
     THEN /\ ret' = [ret EXCEPT ![p] = -1]
          /\ UNCHANGED signal_handlers
     ELSE /\ signal_handlers' = [signal_handlers EXCEPT ![p][signum] = act]
          /\ ret' = [ret EXCEPT ![p] = 0]
  /\ UNCHANGED <<ptable, lock, signals_mask, pending_signals, stopped,
                 signal_handling, signals_mask_backup, user_tf_backup, usr,
                 wait_lock, nextpid, cpuv, pc, loc, panicked>>

\* user memory is the addresses below p->sz = PGSIZE: copyin() and copyout()
\* of n bytes at a fail on any other (an address that has wrapped round below
\* 0 lies above every user address)
UserMapped(a, n) == 0 <= a /\ a + n <= PGSIZE
\* an address outside user memory, whichever it is
NoAddr == -1
UserAddr(a) == IF UserMapped(a, 0) THEN a ELSE NoAddr

\* what copyin() of a trap frame from user address a of p gives: the frame
\* usersignalhandler() has saved there, zero bytes anywhere else in user
\* memory, and the bytes `old` the destination held when the copy fails
CopyinFrame(p, a, old) ==
  IF ~UserMapped(a, TFSIZE) THEN old
  ELSE IF a = umem[p].at THEN umem[p].frame
  ELSE ZeroTF

\* sigret() that leaves the mask of the handler in place
Sigret_KeepMask(p) ==
  /\ Runs(p)
  /\ pc[p] = "user"
  /\ lock[p] = 0
  /\ trapframe' = [trapframe EXCEPT ![p] =
                     CopyinFrame(p, user_tf_backup[p], trapframe[p])]
  /\ user_tf_backup' = [user_tf_backup EXCEPT ![p] = 0]
  /\ signal_handling' = [signal_handling EXCEPT ![p] = FALSE]
  /\ ret' = [ret EXCEPT ![p] = 0]
  /\ UNCHANGED <<ptable, lock, signal_handlers, signals_mask, pending_signals,
                 stopped, signals_mask_backup, umem, wait_lock, nextpid, cpuv,
                 pc, loc, panicked>>

\* sigret(), called from user mode (by the stub a user handler returns to, or
\* by the program itself with no handler in flight): under p->lock
Sigret(p) ==
  /\ Runs(p)
  /\ pc[p] = "user"
  /\ lock[p] = 0
  /\ trapframe' = [trapframe EXCEPT ![p] =
                     CopyinFrame(p, user_tf_backup[p], trapframe[p])]
  /\ signals_mask' = [signals_mask EXCEPT ![p] = signals_mask_backup[p]]
  /\ user_tf_backup' = [user_tf_backup EXCEPT ![p] = 0]
  /\ signal_handling' = [signal_handling EXCEPT ![p] = FALSE]
  /\ ret' = [ret EXCEPT ![p] = 0]
  /\ UNCHANGED <<ptable, lock, signal_handlers, pending_signals, stopped,
                 signals_mask_backup, umem, wait_lock, nextpid, cpuv, pc, loc,
                 panicked>>

\* ---------------------------------------------------- signal delivery
\* signalhandler() entered on the way back to user mode from a trap (the
\* value of an earlier call has been consumed): nothing is done for a process
\* that has a handler in flight
SignalhandlerStart(p) ==
  /\ Runs(p)
  /\ pc[p] = "user"
  /\ IF signal_handling[p]
     THEN UNCHANGED <<pc, loc>>
     ELSE /\ pc' = [pc EXCEPT ![p] = "sh_iter"]
          /\ loc' = [loc EXCEPT ![p] = LocInit]
  /\ ret' = [ret EXCEPT ![p] = 0]
  /\ UNCHANGED <<ptable, lock, sigstate, usr, wait_lock, nextpid, cpuv, panicked>>

\* signalhandler(): the top of the loop at signal loc[p].i: return when
\* killed, enter the stop-wait loop when stopped, otherwise move on to the
\* first signal from i on that is pending and not masked
ShIter(p) ==
  /\ Runs(p)
  /\ pc[p] = "sh_iter"
  /\ LET i == loc[p].i
         P == {k \in i .. (NSIG - 1) : is_pending_and_not_masked(p, k)} IN
     IF i >= NSIG \/ killed[p]
     THEN /\ pc' = [pc EXCEPT ![p] = "user"]
          /\ loc' = [loc EXCEPT ![p] = LocInit]
     ELSE IF stopped[p]
     THEN /\ pc' = [pc EXCEPT ![p] = "sc"]
          /\ UNCHANGED loc
     ELSE IF P = {}
     THEN /\ pc' = [pc EXCEPT ![p] = "user"]
          /\ loc' = [loc EXCEPT ![p] = LocInit]
     ELSE /\ pc' = [pc EXCEPT ![p] = "sh_disp"]
          /\ loc' = [loc EXCEPT ![p].i = Min(P)]
  /\ UNCHANGED <<ptable, lock, sigstate, usr, wait_lock, nextpid, cpuv, ret,
                 panicked>>

\* what signalhandler() does with signal i of p once it is found pending and
\* not masked and no handler is in flight; `skip` is where the ignore action
\* goes, `off` where the other actions go to turn the pending bit off
Dispatch(p, i, skip, off) ==
  LET h == signal_handlers[p][i]
      act == IF h = SIG_IGN THEN "ign"
             ELSE IF h = SIG_DFL
                  THEN (IF i = SIGSTOP THEN "stop"
                        ELSE IF i = SIGCONT THEN "cont" ELSE "kill")
             ELSE IF h = SIGSTOP THEN "stop"
             ELSE IF h = SIGCONT THEN "cont"
             ELSE IF h = SIGKILL THEN "kill"
             ELSE "user" IN
  /\ stopped' = IF act = "stop" THEN [stopped EXCEPT ![p] = TRUE]
                ELSE IF act = "cont" THEN [stopped EXCEPT ![p] = FALSE]
                ELSE stopped
  /\ pc' = [pc EXCEPT ![p] = IF act = "ign" THEN skip
                             ELSE IF act = "kill" THEN "sh_kill"
                             ELSE IF act = "user" THEN "ush"
                             ELSE off]
  /\ loc' = IF act = "ign" THEN [loc EXCEPT ![p].i = i + 1] ELSE loc

\* signalhandler() that goes on with a handler in flight
ShDisp_NoGuard(p) ==
  /\ Runs(p)
  /\ pc[p] = "sh_disp"
  /\ LET i == loc[p].i IN
     IF ~is_pending_and_not_masked(p, i)
     THEN /\ pc' = [pc EXCEPT ![p] = "sh_iter"]
          /\ loc' = [loc EXCEPT ![p].i = i + 1]
          /\ UNCHANGED stopped
     ELSE Dispatch(p, i, "sh_iter", "sh_off")
  /\ UNCHANGED <<ptable, lock, signal_handlers, signals_mask, pending_signals,
                 signal_handling, signals_mask_backup, user_tf_backup, usr,
                 wait_lock, nextpid, cpuv, ret, panicked>>

\* signalhandler(): if(is_pending_and_not_masked(i)) and its body up to the
\* action chosen for i; an ignored signal goes on to i + 1 (continue)
ShDisp(p) ==
  /\ Runs(p)
  /\ pc[p] = "sh_disp"
  /\ LET i == loc[p].i IN
     IF ~is_pending_and_not_masked(p, i)
     THEN /\ pc' = [pc EXCEPT ![p] = "sh_iter"]
          /\ loc' = [loc EXCEPT ![p].i = i + 1]
          /\ UNCHANGED stopped
     ELSE IF signal_handling[p]
     THEN /\ pc' = [pc EXCEPT ![p] = "user"]
          /\ loc' = [loc EXCEPT ![p] = LocInit]
          /\ UNCHANGED stopped
     ELSE Dispatch(p, i, "sh_iter", "sh_off")
  /\ UNCHANGED <<ptable, lock, signal_handlers, signals_mask, pending_signals,
                 signal_handling, signals_mask_backup, user_tf_backup, usr,
                 wait_lock, nextpid, cpuv, ret, panicked>>

\* sigkill_func() called from signalhandler(): under p->lock
ShKill(p) ==
  /\ Runs(p)
  /\ pc[p] = "sh_kill"
  /\ lock[p] = 0
  /\ killed' = [killed EXCEPT ![p] = TRUE]
  /\ state' = IF state[p] = "SLEEPING" THEN [state EXCEPT ![p] = "RUNNABLE"]
              ELSE state
  /\ pc' = [pc EXCEPT ![p] = "sh_off"]
  /\ UNCHANGED <<pid, parent, chan, xstate, lock, sigstate, usr, wait_lock,
                 nextpid, cpuv, loc, ret, panicked>>

\* usersignalhandler(p, i): under p->lock.  The two copyout() calls write to
\* the user stack when it is mapped, and nothing when it is not: their result
\* is not looked at
Ush(p) ==
  /\ Runs(p)
  /\ pc[p] = "ush"
  /\ lock[p] = 0
  /\ LET i == loc[p].i
         handler == UserDesc[signal_handlers[p][i]]
         sp_n == UserAddr(trapframe[p].sp - TFSIZE)
         sp_s == UserAddr(sp_n - STUBSIZE) IN
     /\ signals_mask' = [signals_mask EXCEPT ![p] = Maskable(handler.sigmask)]
     /\ signals_mask_backup' = [signals_mask_backup EXCEPT ![p] = signals_mask[p]]
     /\ signal_handling' = [signal_handling EXCEPT ![p] = TRUE]
     /\ user_tf_backup' = [user_tf_backup EXCEPT ![p] = sp_n]
     /\ umem' = IF UserMapped(sp_n, TFSIZE)
                THEN [umem EXCEPT ![p].at = sp_n, ![p].frame = trapframe[p],
                                  ![p].stub = sp_s]
                ELSE umem
     /\ trapframe' = [trapframe EXCEPT ![p] =
                        [epc |-> handler.sa_handler, sp |-> sp_s,
                         a0 |-> i, ra |-> sp_s]]
  /\ pc' = [pc EXCEPT ![p] = "sh_off"]
  /\ UNCHANGED <<ptable, lock, signal_handlers, pending_signals, stopped,
                 wait_lock, nextpid, cpuv, loc, ret, panicked>>

\* turnoff_sigbit(p, i) at the end of the loop body, then i + 1
ShOff(p) ==
  /\ Runs(p)
  /\ pc[p] = "sh_off"
  /\ lock[p] = 0
  /\ pending_signals' = [pending_signals EXCEPT ![p] = @ \ {loc[p].i}]
  /\ pc' = [pc EXCEPT ![p] = "sh_iter"]
  /\ loc' = [loc EXCEPT ![p].i = @ + 1]
  /\ UNCHANGED <<ptable, lock, signal_handlers, signals_mask, stopped,
                 signal_handling, signals_mask_backup, user_tf_backup, usr,
                 wait_lock, nextpid, cpuv, ret, panicked>>

\* the signals search_cont_signals() takes for a continue in its last loop
ContSignals(p) ==
  {i \in Sigs : is_pending_and_not_masked(p, i) /\ signal_handlers[p][i] = SIGCONT}

\* search_cont_signals() that does not look for SIGKILL
Sc_NoKill(p) ==
  /\ Runs(p)
  /\ pc[p] = "sc"
  /\ IF is_pending_and_not_masked(p, SIGCONT)
     THEN /\ stopped' = [stopped EXCEPT ![p] = FALSE]
          /\ loc' = [loc EXCEPT ![p].j = SIGCONT]
          /\ pc' = [pc EXCEPT ![p] = "sc_off"]
     ELSE IF ContSignals(p) # {}
     THEN /\ stopped' = [stopped EXCEPT ![p] = FALSE]
          /\ loc' = [loc EXCEPT ![p].j = Min(ContSignals(p))]
          /\ pc' = [pc EXCEPT ![p] = "sc_off"]
     ELSE /\ pc' = [pc EXCEPT ![p] = "sh_yield"]
          /\ UNCHANGED <<stopped, loc>>
  /\ UNCHANGED <<ptable, lock, signal_handlers, signals_mask, pending_signals,
                 signal_handling, signals_mask_backup, user_tf_backup, usr,
                 wait_lock, nextpid, cpuv, ret, panicked>>

\* the stop-wait loop of signalhandler(): search_cont_signals() up to the
\* action it chooses, in loc[p].j the signal whose bit it will turn off; with
\* nothing to act on, on to yield()
Sc(p) ==
  /\ Runs(p)
  /\ pc[p] = "sc"
  /\ IF is_pending_and_not_masked(p, SIGCONT)
     THEN /\ stopped' = [stopped EXCEPT ![p] = FALSE]
          /\ loc' = [loc EXCEPT ![p].j = SIGCONT]
          /\ pc' = [pc EXCEPT ![p] = "sc_off"]
     ELSE IF is_pending_and_not_masked(p, SIGKILL)
     THEN /\ loc' = [loc EXCEPT ![p].j = SIGKILL]
          /\ pc' = [pc EXCEPT ![p] = "sc_kill"]
          /\ UNCHANGED stopped
     ELSE IF ContSignals(p) # {}
     THEN /\ stopped' = [stopped EXCEPT ![p] = FALSE]
          /\ loc' = [loc EXCEPT ![p].j = Min(ContSignals(p))]
          /\ pc' = [pc EXCEPT ![p] = "sc_off"]
     ELSE /\ pc' = [pc EXCEPT ![p] = "sh_yield"]
          /\ UNCHANGED <<stopped, loc>>
  /\ UNCHANGED <<ptable, lock, signal_handlers, signals_mask, pending_signals,
                 signal_handling, signals_mask_backup, user_tf_backup, usr,
                 wait_lock, nextpid, cpuv, ret, panicked>>

\* sigkill_func() called from search_cont_signals(): under p->lock
ScKill(p) ==
  /\ Runs(p)
  /\ pc[p] = "sc_kill"
  /\ lock[p] = 0
  /\ killed' = [killed EXCEPT ![p] = TRUE]
  /\ state' = IF state[p] = "SLEEPING" THEN [state EXCEPT ![p] = "RUNNABLE"]
              ELSE state
  /\ pc' = [pc EXCEPT ![p] = "sc_off"]
  /\ UNCHANGED <<pid, parent, chan, xstate, lock, sigstate, usr, wait_lock,
                 nextpid, cpuv, loc, ret, panicked>>

\* turnoff_sigbit() called from search_cont_signals(), which returns 1: the
\* stop-wait loop is left for the test of signal i
ScOff(p) ==
  /\ Runs(p)
  /\ pc[p] = "sc_off"
  /\ lock[p] = 0
  /\ pending_signals' = [pending_signals EXCEPT ![p] = @ \ {loc[p].j}]
  /\ pc' = [pc EXCEPT ![p] = "sh_disp"]
  /\ loc' = [loc EXCEPT ![p].j = 0]
  /\ UNCHANGED <<ptable, lock, signal_handlers, signals_mask, stopped,
                 signal_handling, signals_mask_backup, user_tf_backup, usr,
                 wait_lock, nextpid, cpuv, ret, panicked>>

\* yield() called in the stop-wait loop
ShYield(p) ==
  /\ Runs(p)
  /\ pc[p] = "sh_yield"
  /\ lock[p] = 0
  /\ LET c == CpuOf(p) IN
     IF SchedOk(p, c, wait_lock)
     THEN /\ state' = [state EXCEPT ![p] = "RUNNABLE"]
          /\ cpu_proc' = SwtchCpu(c)
          /\ sidx' = SwtchIdx(c)
          /\ pc' = [pc EXCEPT ![p] = "sh_yield_ret"]
          /\ UNCHANGED <<pid, parent, chan, killed, xstate, lock, sigstate, usr,
                         wait_lock, nextpid, loc, ret, panicked>>
     ELSE SchedPanic

\* that yield() after sched() returns: release(&p->lock), back to while(p->stopped)
ShYieldRet(p) ==
  /\ Runs(p)
  /\ pc[p] = "sh_yield_ret"
  /\ lock' = [lock EXCEPT ![p] = 0]
  /\ pc' = [pc EXCEPT ![p] = "sc"]
  /\ UNCHANGED <<ptable, sigstate, usr, wait_lock, nextpid, cpuv, loc, ret,
                 panicked>>

\* a state the boot leads to: the first process and its child in slot 2 both
\* in user mode on a CPU; slot 3 either UNUSED or a second child that has
\* exited and is not reaped yet
InitSig ==
  /\ \E z \in BOOLEAN :
       /\ state = [p \in Procs |-> IF p <= 2 THEN "RUNNING"
                                   ELSE IF z THEN "ZOMBIE" ELSE "UNUSED"]
       /\ pid = [p \in Procs |-> IF p <= 2 \/ z THEN p ELSE 0]
       /\ parent = [p \in Procs |-> IF p = 2 \/ (p = 3 /\ z) THEN initproc ELSE 0]
       /\ xstate = [p \in Procs |-> IF p = 3 /\ z THEN 1 ELSE 0]
       /\ trapframe = [p \in Procs |-> IF p <= 2 \/ z THEN InitTF ELSE ZeroTF]
       /\ pc = [p \in Procs |-> IF p = 3 /\ z THEN "zombie" ELSE "user"]
       /\ nextpid = IF z THEN NPROC + 1 ELSE 3
  /\ chan = [p \in Procs |-> 0]
  /\ killed = [p \in Procs |-> FALSE]
  /\ lock = [p \in Procs |-> 0]
  /\ signal_handlers = [p \in Procs |-> DflHandlers]
  /\ signals_mask = [p \in Procs |-> {}]
  /\ pending_signals = [p \in Procs |-> {}]
  /\ stopped = [p \in Procs |-> FALSE]
  /\ signal_handling = [p \in Procs |-> FALSE]
  /\ signals_mask_backup = [p \in Procs |-> {}]
  /\ user_tf_backup = [p \in Procs |-> 0]
  /\ umem = [p \in Procs |-> EmptyMem]
  /\ wait_lock = 0
  /\ cpu_proc = [c \in CPUs |-> IF c <= 2 THEN c ELSE 0]
  /\ sidx = [c \in CPUs |-> IF c <= 2 THEN c ELSE 1]
  /\ loc = [p \in Procs |-> LocInit]
  /\ ret = [p \in Procs |-> 0]
  /\ panicked = "none"

\* signals: kill by the sender; masks, handlers, delivery and sigret in the
\* receivers; the scheduler for the yields of the stop-wait loop
NextSig ==
  \/ \E c \in CPUs : Scheduler(c)
  \/ \E p \in Senders : \E kpid \in KillPids : \E signum \in KillSigs :
       Kill(p, kpid, signum)
  \/ \E p \in Receivers : \E mask \in MaskVals : Sigprocmask(p, mask)
  \/ \E p \in Receivers : \E signum \in ActSigs : \E act \in ActVals :
       \E oldact \in OldActs : Sigaction(p, signum, act, oldact)
  \/ \E p \in Receivers : Sigret(p)
  \/ \E p \in Receivers : SignalhandlerStart(p)
  \/ \E p \in Procs : ShIter(p)
  \/ \E p \in Procs : ShDisp(p)
  \/ \E p \in Procs : ShKill(p)
  \/ \E p \in Procs : Ush(p)
  \/ \E p \in Procs : ShOff(p)
  \/ \E p \in Procs : Sc(p)
  \/ \E p \in Procs : ScKill(p)
  \/ \E p \in Procs : ScOff(p)
  \/ \E p \in Procs : ShYield(p)
  \/ \E p \in Procs : ShYieldRet(p)

SpecSig == InitSig /\ [][NextSig]_vars

\* the scenario of a handler that runs under its own mask: the sender raises
\* signals 5 and 6 against the process in slot 2, which installs handlers for
\* signal 5, sets masks, takes delivery passes and calls sigret
ScenPids == {2}
ScenSigs == {5, 6}

NextScen ==
  \/ \E p \in Senders : \E kpid \in ScenPids : \E signum \in ScenSigs :
       Kill(p, kpid, signum)
  \/ \E p \in Receivers : \E mask \in MaskVals : Sigprocmask(p, mask)
  \/ \E p \in Receivers : \E act \in ActVals : \E oldact \in OldActs :
       Sigaction(p, 5, act, oldact)
  \/ \E p \in Receivers : Sigret(p)
  \/ \E p \in Receivers : SignalhandlerStart(p)
  \/ \E p \in Procs : ShIter(p)
  \/ \E p \in Procs : ShDisp(p)
  \/ \E p \in Procs : ShKill(p)
  \/ \E p \in Procs : Ush(p)
  \/ \E p \in Procs : ShOff(p)

SpecScen == InitSig /\ [][NextScen]_vars

\* the signal calls against a kill() in progress: the sender raises signal
\* 5, SIGKILL, SIGSTOP and SIGCONT against the process in slot 2, holding its record
\* lock from the match to the release; the receivers set masks, install
\* handlers for signal 5, take delivery passes and call sigret
LockSigs == {5, SIGKILL, SIGSTOP, SIGCONT}

NextLock ==
  \/ \E c \in CPUs : Scheduler(c)
  \/ \E p \in Senders : \E kpid \in ScenPids : \E signum \in LockSigs :
       KillLock(p, kpid, signum)
  \/ \E p \in Senders : KillSet(p)
  \/ \E p \in Receivers : \E mask \in MaskVals : Sigprocmask(p, mask)
  \/ \E p \in Receivers : \E act \in ActVals : \E oldact \in OldActs :
       Sigaction(p, 5, act, oldact)
  \/ \E p \in Receivers : Sigret(p)
  \/ \E p \in Receivers : SignalhandlerStart(p)
  \/ \E p \in Procs : ShIter(p)
  \/ \E p \in Procs : ShDisp(p)
  \/ \E p \in Procs : ShKill(p)
  \/ \E p \in Procs : Ush(p)
  \/ \E p \in Procs : ShOff(p)
  \/ \E p \in Procs : Sc(p)
  \/ \E p \in Procs : ScKill(p)
  \/ \E p \in Procs : ScOff(p)
  \/ \E p \in Procs : ShYield(p)
  \/ \E p \in Procs : ShYieldRet(p)

SpecLock == InitSig /\ [][NextLock]_vars

\* fork among signals, from boot: the first process forks and raises signal 5
\* against its descendants, which set masks, install handlers for signal 5,
\* take delivery passes, call sigret and fork in their turn
ForkSigs == {5}
ForkPids == {2, 3}
ForkActs == {SIG_IGN} \cup DOMAIN UserDesc

NextFork ==
  \/ \E c \in CPUs : Scheduler(c)
  \/ \E p \in Procs : Forkret(p)
  \/ \E p \in Procs : ForkStart(p)
  \/ \E p \in Procs : AllocProc(p)
  \/ \E p \in Procs : ForkParent(p)
  \/ \E p \in Procs : ForkRunnable(p)
  \/ \E p \in Senders : \E kpid \in ForkPids : \E signum \in ForkSigs :
       Kill(p, kpid, signum)
  \/ \E p \in Receivers : \E mask \in MaskVals : Sigprocmask(p, mask)
  \/ \E p \in Receivers : \E act \in ForkActs : Sigaction(p, 5, act, 0)
  \/ \E p \in Receivers : Sigret(p)
  \/ \E p \in Receivers : SignalhandlerStart(p)
  \/ \E p \in Procs : ShIter(p)
  \/ \E p \in Procs : ShDisp(p)
  \/ \E p \in Procs : ShKill(p)
  \/ \E p \in Procs : Ush(p)
  \/ \E p \in Procs : ShOff(p)

SpecFork == InitBoot /\ [][NextFork]_vars

\* the life cycle with kill(): every process forks, exits, waits and yields
\* as in NextLife, and the first process calls kill(pid, SIGKILL) with the pid
\* of its first child or with pid 0, the pid an UNUSED slot holds
KernPids == {0, 2}

NextKern ==
  \/ NextLife
  \/ \E p \in Senders : \E kpid \in KernPids : Kill(p, kpid, SIGKILL)

SpecKern == InitBoot /\ [][NextKern]_vars

\* a step of the delivery pass of p
DeliveryStep(p) == ShIter(p) \/ ShDisp(p) \/ ShKill(p) \/ ShOff(p)

\* kill(2, SIGKILL) called by the first process while the process of pid 2
\* is SLEEPING
KillSleeper ==
  /\ state[2] = "SLEEPING" /\ pid[2] = 2
  /\ Kill(initproc, 2, SIGKILL)

\* SIGKILL against a process that sleeps: the first process forks the process
\* of pid 2 and raises SIGKILL against it; that process forks a child, calls
\* wait() and takes a delivery pass whenever it is back in user mode; it and
\* its child yield, and exit if they choose to
NextWake ==
  \/ \E c \in CPUs : Scheduler(c)
  \/ \E p \in Procs : Yield(p)
  \/ \E p \in {initproc, 2} : ForkStart(p)
  \/ \E p \in Receivers : \E st \in ExitStatuses : ExitStart(p, st)
  \/ WaitStart(2, NullAddr)
  \/ \E p \in Procs : KernelStep(p)
  \/ KillSleeper
  \/ SignalhandlerStart(2)
  \/ \E p \in Procs : DeliveryStep(p)

\* what the machine guarantees, as in FairLifeCond; a delivery pass that has
\* begun runs on
FairWakeCond ==
  /\ \A c \in CPUs : WF_vars(Scheduler(c))
  /\ \A p \in Procs : SF_vars(KernelStep(p))
  /\ \A p \in Procs : SF_vars(DeliveryStep(p))
  /\ \A p \in Procs : WF_vars(Yield(p))

FairWake == InitBoot /\ [][NextWake]_vars /\ FairWakeCond

\* ------------------------------------------------------------ properties
Children(p) == {k \in Procs : parent[k] = p}
ZombieChildren(p) == {k \in Children(p) : state[k] = "ZOMBIE"}
SleepingOn(p, ch) == state[p] = "SLEEPING" /\ chan[p] = ch

\* C1: no lost wakeup.  When exit() has finished wakeup(p->parent), issued
\* while it holds wait_lock and so after any sleep(parent, &wait_lock) of the
\* parent has handed over from wait_lock to the parent's record lock, the
\* parent is not SLEEPING on that channel: the wakeup made it RUNNABLE.  The
\* same for initproc once reparent() has finished a wakeup(initproc).
C1_NoLostWakeup ==
  \A q \in Procs :
    /\ pc[q] = "exit_zombie" => ~SleepingOn(parent[q], parent[q])
    /\ (pc[q] = "reparent" /\ loc[q].i > 1) => ~SleepingOn(initproc, initproc)

\* C1 witness: a parent that went to sleep in wait() has been made RUNNABLE by
\* the wakeup of its exiting child, which has completed
C1_Witness ==
  \E q \in Procs :
    /\ pc[q] = "exit_zombie"
    /\ pc[parent[q]] = "sleep_ret"
    /\ state[parent[q]] = "RUNNABLE"

\* C3: wait() returns -1 at once when the caller has no children; with
\* children it returns only -1 for a killed caller or a failed copy-out of a
\* ZOMBIE child's status, or the pid of a child that was ZOMBIE and whose slot
\* is UNUSED afterwards; it goes to sleep only with children, none ZOMBIE.
C3_WaitContract ==
  [][\A p \in Procs :
       /\ (pc[p] = "wait_scan" /\ pc'[p] = "user") =>
            \/ /\ ret'[p] = -1
               /\ \/ Children(p) = {}
                  \/ killed[p]
                  \/ ZombieChildren(p) # {} /\ CopyoutFails(loc[p].a1)
               /\ state' = state
            \/ \E k \in ZombieChildren(p) :
                 /\ ret'[p] = pid[k]
                 /\ pid[k] > 0
                 /\ state'[k] = "UNUSED"
       /\ (pc[p] = "wait_scan" /\ Children(p) = {} /\ loc'[p] # loc[p]) =>
            (pc'[p] = "user" /\ ret'[p] = -1)
       /\ (pc[p] = "wait_scan" /\ pc'[p] = "sleep") =>
            (Children(p) # {} /\ ZombieChildren(p) = {} /\ ~killed[p])
    ]_vars

\* C3 witness: wait() has returned the pid of a reaped child
C3_Witness ==
  \E p \in Procs :
    /\ pc[p] = "user"
    /\ ret[p] > 1
    /\ \A k \in Procs : pid[k] # ret[p]
    /\ umem[p].status \in ExitStatuses

WaitPcs == {"wait_scan", "sleep", "sleep_release", "sleep_sched", "sleep_ret",
            "sleep_reacq"}

C4_OrphanReparenting ==
  /\ [](\A a \in Procs : state[a] = "ZOMBIE" => Children(a) = {})
  /\ [](\A k \in Procs :
          (state[k] # "UNUSED" /\ parent[k] # 0)
            => state[parent[k]] \notin {"ZOMBIE", "UNUSED"})
  /\ [](\A q \in Procs :
          (pc[q] = "reparent" /\ loc[q].i > 1)
            => ~SleepingOn(initproc, initproc))
  /\ [][\A k \in Procs :
          /\ (parent[k] # 0 /\ parent'[k] # parent[k] /\ state'[k] # "UNUSED")
               => (parent'[k] = initproc /\ pc[parent[k]] = "reparent")
          /\ (state[k] = "ZOMBIE" /\ state'[k] = "UNUSED")
               => /\ ret'[parent[k]] = pid[k]
                  /\ loc[parent[k]].a1 = GoodAddr
                       => umem'[parent[k]].status = xstate[k]]_vars
  /\ \A k \in Procs :
       (state[k] = "ZOMBIE" /\ parent[k] = initproc) ~> (state[k] = "UNUSED")

\* C4 witness: an exiting process has handed its ZOMBIE child to initproc,
\* which slept in wait() and has been woken for it
C4_Witness ==
  \E q \in Procs \ {initproc} : \E k \in Procs \ {initproc} :
    /\ pc[q] = "reparent" /\ loc[q].i = k + 1
    /\ parent[k] = initproc /\ state[k] = "ZOMBIE"
    /\ pc[initproc] = "sleep_ret" /\ state[initproc] = "RUNNABLE"

\* the record locks the CPU of p holds
HeldBy(p) == {q \in Procs : lock[q] = CpuOf(p)}

\* C5: kill always releases the record lock it took.  A call of kill(pid,
\* signum) that returns, on whichever path, leaves the calling thread holding
\* exactly the record locks it held before the call.
C5_KillReleasesLock ==
  [][\A p \in Senders : \A kpid \in KillPids : \A signum \in KillSigs :
       (Kill(p, kpid, signum) /\ panicked' = "none")
         => {q \in Procs : lock'[q] = CpuOf(p)} = HeldBy(p)]_vars

\* C6: what kill(pid, signum) with a valid signum does.  With no record of
\* that pid, or a matching record that is ZOMBIE, UNUSED or killed, it returns
\* -1 and changes nothing in any process record; otherwise it returns 0 and
\* the one change is that signum is in the target's pending_signals (so that
\* raising a pending signal again changes nothing).
C6_KillSemantics ==
  [][\A p \in Senders : \A kpid \in KillPids : \A signum \in KillSigs \ {NSIG} :
       (Kill(p, kpid, signum) /\ panicked' = "none")
         => LET M == {j \in Procs : pid[j] = kpid}
                fails == \/ M = {}
                         \/ killed[Min(M)]
                         \/ state[Min(M)] \in {"ZOMBIE", "UNUSED"} IN
            IF fails
            THEN /\ ret'[p] = -1
                 /\ UNCHANGED <<ptable, lock, sigstate, usr>>
            ELSE /\ ret'[p] = 0
                 /\ pending_signals' =
                      [pending_signals EXCEPT ![Min(M)] = @ \cup {signum}]
                 /\ (signum \in pending_signals[Min(M)]
                       => pending_signals' = pending_signals)
                 /\ UNCHANGED <<ptable, lock, signal_handlers, signals_mask,
                                stopped, signal_handling, signals_mask_backup,
                                user_tf_backup, usr>>]_vars

\* the places of a delivery pass
PassPcs == {"sh_iter", "sh_disp", "sh_kill", "ush", "sh_off", "sc", "sc_kill",
            "sc_off", "sh_yield", "sh_yield_ret"}

\* the pass of p is at a signal that is pending, not masked and ignored, with
\* no handler in flight
AtIgnored(p) ==
  /\ pc[p] \in {"sh_disp", "sh_off"}
  /\ ~signal_handling[p]
  /\ ~killed[p]
  /\ is_pending_and_not_masked(p, loc[p].i)
  /\ signal_handlers[p][loc[p].i] = SIG_IGN

\* C7: ignore round trip.  When a delivery pass of a process that is not
\* killed and has no handler in flight goes past a signal k that is pending,
\* not masked and ignored, bit k of pending_signals is clear, and the pass has
\* changed nothing else of the process: mask, handlers, stopped, killed,
\* signal_handling, the other pending bits and the trap frame.
C7_IgnoreRoundTrip ==
  [][\A p \in Receivers :
       (AtIgnored(p) /\ loc'[p].i # loc[p].i)
         => /\ loc[p].i \notin pending_signals'[p]
            /\ pending_signals'[p] \ {loc[p].i} = pending_signals[p] \ {loc[p].i}
            /\ signals_mask'[p] = signals_mask[p]
            /\ signal_handlers'[p] = signal_handlers[p]
            /\ stopped'[p] = stopped[p]
            /\ killed'[p] = killed[p]
            /\ signal_handling'[p] = signal_handling[p]
            /\ trapframe'[p] = trapframe[p]]_vars

\* C8: reentrancy guard.  While signal_handling is true for a process, no step
\* of a delivery pass dispatches a handler or applies a signal action: none
\* starts a user handler or a kill, stopped and killed stay as they are, and
\* inside the pass the mask, the handlers, the trap frame and signal_handling
\* stay as they are; the one pending bit turned off is that of the signal the
\* handler in flight was dispatched for.  The flag is set by the dispatch of a
\* user handler and cleared by sigret alone, called from user mode, so that a
\* pass dispatches at most one user handler.
C8_ReentrancyGuard ==
  [][\A p \in Procs :
       /\ signal_handling[p] =>
            /\ pc'[p] \notin {"ush", "sh_kill", "sc_kill"}
            /\ stopped'[p] = stopped[p]
            /\ killed'[p] = killed[p]
            /\ pc[p] \in PassPcs =>
                 /\ signals_mask'[p] = signals_mask[p]
                 /\ signal_handlers'[p] = signal_handlers[p]
                 /\ trapframe'[p] = trapframe[p]
                 /\ signal_handling'[p]
            /\ pending_signals[p] \ pending_signals'[p] \subseteq
                 (IF pc[p] = "sh_off" THEN {trapframe[p].a0} ELSE {})
       /\ (pc[p] = "ush" /\ pc'[p] # "ush") => signal_handling'[p]
       /\ (signal_handling[p] /\ ~signal_handling'[p]) => pc[p] = "user"]_vars

\* C8 witness: a pass that has dispatched a user handler finds another signal
\* pending and not masked
C8_Witness ==
  \E p \in Procs :
    /\ signal_handling[p]
    /\ pc[p] = "sh_disp"
    /\ is_pending_and_not_masked(p, loc[p].i)

\* ------------------------------------------------- stop, continue, masks
\* the places of a stopped process: between the stop action and the end of
\* the stop-wait loop
StopWaitPcs == {"sh_off", "sh_iter", "sc", "sc_kill", "sh_yield", "sh_yield_ret"}

\* a continue-class or kill-class signal has been raised against p
Raised(p) ==
  \/ SIGCONT \in pending_signals[p]
  \/ SIGKILL \in pending_signals[p]
  \/ \E k \in pending_signals[p] : signal_handlers[p][k] = SIGCONT

\* a continue-class or kill-class signal of p is pending and not masked
Deliverable(p) ==
  \/ is_pending_and_not_masked(p, SIGCONT)
  \/ is_pending_and_not_masked(p, SIGKILL)
  \/ ContSignals(p) # {}

\* the steps of p about stopping: the default action of SIGSTOP sets stopped;
\* one turn of the stop-wait loop leaves the loop when `trigger` holds and
\* yields otherwise; a continue clears stopped and a kill sets killed
StopStep(p, trigger) ==
  /\ ( /\ pc[p] = "sh_disp" /\ pc'[p] # "sh_disp"
       /\ loc[p].i = SIGSTOP /\ is_pending_and_not_masked(p, SIGSTOP)
       /\ ~signal_handling[p] ) => (stopped'[p] /\ pc'[p] = "sh_off")
  /\ (pc[p] = "sc" /\ pc'[p] # "sc") =>
       IF trigger THEN pc'[p] \in {"sc_off", "sc_kill"} ELSE pc'[p] = "sh_yield"
  /\ (pc[p] = "sc" /\ pc'[p] = "sc_off") => ~stopped'[p]
  /\ (pc[p] = "sc_kill" /\ pc'[p] # "sc_kill") => killed'[p]

\* C9 as stated: a process stopped by the default action of the stop signal
\* stays in the stop-wait loop, out of user mode and dispatching nothing,
\* until a continue-class or kill-class signal is raised against it; once one
\* has been raised, the next turn of the loop leaves it (a continue clears
\* stopped, a kill sets killed).
C9_StopContinueRaised ==
  /\ [](\A p \in Procs : (stopped[p] /\ ~killed[p]) => pc[p] \in StopWaitPcs)
  /\ [][\A p \in Procs : StopStep(p, Raised(p))]_vars

\* C9: a process stopped by the default action of the stop signal stays in
\* the stop-wait loop, out of user mode and dispatching nothing, until a
\* continue-class or kill-class signal is pending and not masked; once one is,
\* the next turn of the loop leaves it (a continue clears stopped, a kill sets
\* killed).
C9_StopContinue ==
  /\ [](\A p \in Procs : (stopped[p] /\ ~killed[p]) => pc[p] \in StopWaitPcs)
  /\ [][\A p \in Procs : StopStep(p, Deliverable(p))]_vars

\* C9 witness: a stopped process that has yielded in the stop-wait loop, with
\* SIGCONT raised and masked: it stays stopped
C9_Witness ==
  \E p \in Procs :
    /\ stopped[p] /\ ~killed[p]
    /\ pc[p] = "sh_yield_ret"
    /\ SIGCONT \in pending_signals[p] /\ SIGCONT \in signals_mask[p]

\* the steps of p about masks.  A pending signal that is masked stays pending;
\* a step that starts the action of a signal, or a continue or kill of the
\* stop-wait loop, does it for a signal that is not in the mask; the pass
\* moves on to the first signal that is pending and not masked, and once it is
\* at such a signal, and `ready` holds, it acts on it or ignores it
MaskStep(p, ready) ==
  /\ \A k \in Sigs \ {SIGKILL, SIGSTOP} :
       ( /\ k \in signals_mask[p] /\ k \in pending_signals[p]
         /\ ~(pc[p] = "sh_off" /\ loc[p].i = k)
         /\ ~(pc[p] = "sc_off" /\ loc[p].j = k) ) => k \in pending_signals'[p]
  /\ (pc[p] = "sh_disp" /\ pc'[p] \in {"sh_kill", "ush", "sh_off"})
       => loc[p].i \notin signals_mask[p]
  /\ (pc[p] = "sc" /\ pc'[p] \in {"sc_off", "sc_kill"})
       => loc'[p].j \notin signals_mask[p]
  /\ ( /\ pc[p] = "sh_iter" /\ pc'[p] # "sh_iter"
       /\ ~killed[p] /\ ~stopped[p]
       /\ \E k \in loc[p].i .. (NSIG - 1) : is_pending_and_not_masked(p, k) )
       => (pc'[p] = "sh_disp" /\ is_pending_and_not_masked(p, loc'[p].i))
  /\ ( /\ pc[p] = "sh_disp" /\ pc'[p] # "sh_disp"
       /\ loc[p].i \in pending_signals[p]
       /\ loc[p].i \notin signals_mask[p] \ {SIGKILL, SIGSTOP}
       /\ ready )
       => \/ pc'[p] \in {"sh_kill", "ush", "sh_off"}
          \/ signal_handlers[p][loc[p].i] = SIG_IGN

\* the stored mask never holds a non-maskable signal, which is deliverable
\* whenever it is pending
NonMaskable ==
  \A p \in Procs :
    /\ signals_mask[p] \cap {SIGKILL, SIGSTOP} = {}
    /\ \A k \in {SIGKILL, SIGSTOP} :
         k \in pending_signals[p] => is_pending_and_not_masked(p, k)

\* C10 as stated: while a maskable signal k is in the mask no delivery pass
\* acts on it and it stays pending; a pass delivers a signal that is pending
\* and not in the mask; a mask requested with the bits of the non-maskable
\* signals does not hold them, and a pass in which a non-maskable signal is
\* pending delivers it.
C10_MaskingEveryPass ==
  /\ []NonMaskable
  /\ [][\A p \in Procs : MaskStep(p, TRUE)]_vars

\* C10: while a maskable signal k is in the mask no delivery pass acts on it
\* and it stays pending; a pass with no handler in flight delivers a signal
\* that is pending and not in the mask; a mask requested with the bits of the
\* non-maskable signals does not hold them, and a pass with no handler in
\* flight in which a non-maskable signal is pending delivers it.
C10_Masking ==
  /\ []NonMaskable
  /\ [][\A p \in Procs : MaskStep(p, ~signal_handling[p])]_vars

\* C10 witness: after a sigprocmask that asked for signal 5 and the
\* non-maskable signals, a pass has left the pending signal 5 alone and is
\* delivering SIGKILL
C10_Witness ==
  \E p \in Procs :
    /\ pc[p] = "sh_kill" /\ loc[p].i = SIGKILL
    /\ 5 \in signals_mask[p] /\ 5 \in pending_signals[p]

\* ------------------------------------------------- handlers and sigret
\* the pass of p has signal k as the first one from loc[p].i on that is
\* pending and not masked
NextDelivered(p, k) ==
  /\ loc[p].i <= k
  /\ is_pending_and_not_masked(p, k)
  /\ \A j \in loc[p].i .. (k - 1) : ~is_pending_and_not_masked(p, j)

\* C11: the handler-local mask.  From the dispatch of the user handler of
\* signal 5, whose mask holds signal 6, until sigret, a signal 6 raised against
\* the process stays pending and no step delivers it: none starts a handler or
\* a kill, and stopped and killed stay as they are.  sigret puts back the mask
\* of before the dispatch, and a pass with no handler in flight that comes to
\* signal 6, pending and not masked, applies its action (the default one: the
\* process is killed) and turns its pending bit off.
C11_HandlerMask ==
  [][\A p \in Receivers :
       /\ (pc[p] = "ush" /\ pc'[p] # "ush") =>
            /\ signal_handling'[p]
            /\ 6 \in signals_mask'[p]
            /\ signals_mask_backup'[p] = signals_mask[p]
       /\ (signal_handling[p] /\ 6 \in pending_signals[p]) =>
            /\ 6 \in pending_signals'[p]
            /\ pc'[p] \notin {"ush", "sh_kill"}
            /\ killed'[p] = killed[p]
            /\ stopped'[p] = stopped[p]
       /\ (signal_handling[p] /\ ~signal_handling'[p]) =>
            signals_mask'[p] = signals_mask_backup[p]
       /\ signal_handling[p] => signals_mask_backup'[p] = signals_mask_backup[p]
       /\ ( /\ pc[p] = "sh_iter" /\ pc'[p] # "sh_iter"
            /\ ~killed[p] /\ ~stopped[p] /\ NextDelivered(p, 6) ) =>
            (pc'[p] = "sh_disp" /\ loc'[p].i = 6)
       /\ ( /\ pc[p] = "sh_disp" /\ pc'[p] # "sh_disp" /\ loc[p].i = 6
            /\ is_pending_and_not_masked(p, 6) /\ ~signal_handling[p] ) =>
            pc'[p] = "sh_kill"
       /\ (pc[p] = "sh_kill" /\ pc'[p] # "sh_kill" /\ loc[p].i = 6) =>
            (killed'[p] /\ pc'[p] = "sh_off")
       /\ (pc[p] = "sh_off" /\ pc'[p] # "sh_off" /\ loc[p].i = 6) =>
            6 \notin pending_signals'[p]]_vars

\* C11 witness: the handler of signal 5 has run and returned through sigret,
\* which has put the interrupted frame back, and the pass after it is
\* delivering signal 6
C11_Witness ==
  \E p \in Receivers :
    /\ pc[p] = "sh_off" /\ loc[p].i = 6 /\ killed[p]
    /\ ~signal_handling[p]
    /\ umem[p].at # 0 /\ trapframe[p] = umem[p].frame
    /\ 5 \notin pending_signals[p]

\* the frame sigret() would make the live one
SavedFrame(p) == CopyinFrame(p, user_tf_backup[p], trapframe[p])

\* C12: dispatch/sigret round trip.  The dispatch of a user handler saves the
\* live trap frame where sigret() will read it and the mask in the backup, and
\* sets signal_handling; nothing changes what is saved while the handler is in
\* flight; sigret() then makes the saved frame the live one, puts the saved
\* mask back, clears signal_handling and the saved-frame pointer.  So after
\* sigret the frame and the mask are those of just before the dispatch.
C12_RoundTrip ==
  [][\A p \in Receivers :
       /\ (pc[p] = "ush" /\ pc'[p] # "ush") =>
            /\ signal_handling'[p]
            /\ signals_mask_backup'[p] = signals_mask[p]
            /\ SavedFrame(p)' = trapframe[p]
       /\ (signal_handling[p] /\ signal_handling'[p]) =>
            /\ signals_mask_backup'[p] = signals_mask_backup[p]
            /\ user_tf_backup'[p] = user_tf_backup[p]
            /\ umem'[p] = umem[p]
       /\ (signal_handling[p] /\ ~signal_handling'[p]) =>
            /\ trapframe'[p] = SavedFrame(p)
            /\ signals_mask'[p] = signals_mask_backup[p]
            /\ user_tf_backup'[p] = 0]_vars

\* C13: the contract of sigaction(signum, act, oldact).  For a signum out of
\* 0..31 or a non-maskable one it returns -1 and changes nothing of any
\* process; otherwise it returns 0, the handler of signum is the requested one
\* (default, ignore or custom: what the next delivery applies), every other
\* handler is as before, the previous handler is at oldact when one is given,
\* and nothing else of any process changes.
C13_SigactionContract ==
  [][\A p \in Receivers : \A signum \in ActSigs : \A act \in ActVals :
       \A oldact \in OldActs :
         Sigaction(p, signum, act, oldact) =>
           IF signum < 0 \/ signum > 31 \/ signum \in {SIGKILL, SIGSTOP}
           THEN /\ ret'[p] = -1
                /\ UNCHANGED <<ptable, sigstate, usr>>
           ELSE /\ ret'[p] = 0
                /\ signal_handlers' = [signal_handlers EXCEPT ![p][signum] = act]
                /\ umem' = [umem EXCEPT ![p].old =
                             IF oldact = 0 THEN @ ELSE signal_handlers[p][signum]]
                /\ UNCHANGED <<ptable, signals_mask, pending_signals, stopped,
                               signal_handling, signals_mask_backup,
                               user_tf_backup, trapframe>>]_vars

\* ------------------------------------------------------------ fork
\* C14: pid uniqueness.  No two slots in use carry the same pid; every pid is
\* below nextpid, which never decreases, and a slot gets a new pid only from
\* allocpid(): the value of nextpid, which then grows, so that the pid is
\* greater than every pid handed out before and is the pid of no slot in use.
C14_PidUnique ==
  /\ [](\A a \in Procs : \A b \in Procs \ {a} :
          (state[a] # "UNUSED" /\ state[b] # "UNUSED") => pid[a] # pid[b])
  /\ [](\A k \in Procs : pid[k] < nextpid)
  /\ [][/\ nextpid' >= nextpid
        /\ \A k \in Procs :
             (pid'[k] # pid[k] /\ pid'[k] # 0) =>
               /\ pid'[k] = nextpid
               /\ nextpid' > nextpid
               /\ state[k] = "UNUSED"
               /\ \A j \in Procs : state[j] # "UNUSED" => pid[j] # pid'[k]]_vars

\* C14 witness: the first process has reaped its first child, of slot 2 and
\* pid 2, and slot 2 is in use again under a greater pid
C14_Witness ==
  /\ umem[initproc].status \in ExitStatuses
  /\ state[2] = "RUNNABLE" /\ pid[2] = 3 /\ parent[2] = initproc
  /\ \A k \in Procs \ {initproc, 2} : state[k] = "UNUSED"

\* C15: a fork that succeeds gives the child, at the step that fills its
\* record, the parent's handler table and mask, no pending signal whatever
\* the parent has pending, stopped and signal_handling false and a0 = 0; up
\* to fork's return nothing of that changes but for signals other processes
\* raise against the child; at its return the child is RUNNABLE, its parent
\* is the caller, its handlers and mask are the caller's, and the caller is
\* handed the child's pid
C15_ForkChild ==
  [][\A p \in Procs :
       /\ (pc[p] = "allocproc" /\ pc'[p] = "fork_parent") =>
             LET i == loc'[p].np IN
             /\ state[i] = "UNUSED" /\ state'[i] = "USED"
             /\ pid'[i] = loc'[p].a1 /\ pid'[i] > 0
             /\ signal_handlers'[i] = signal_handlers[p]
             /\ signals_mask'[i] = signals_mask[p]
             /\ pending_signals'[i] = {}
             /\ ~stopped'[i] /\ ~signal_handling'[i]
             /\ trapframe'[i] = [trapframe[p] EXCEPT !.a0 = 0]
       /\ pc[p] \in {"fork_parent", "fork_runnable"} =>
             LET i == loc[p].np IN
             /\ signal_handlers'[i] = signal_handlers[i]
             /\ signals_mask'[i] = signals_mask[i]
             /\ stopped'[i] = stopped[i]
             /\ signal_handling'[i] = signal_handling[i]
             /\ trapframe'[i] = trapframe[i]
             /\ pid'[i] = pid[i]
             /\ signal_handlers'[p] = signal_handlers[p]
             /\ signals_mask'[p] = signals_mask[p]
             /\ pending_signals[i] \subseteq pending_signals'[i]
             /\ pending_signals'[i] # pending_signals[i] => pc'[p] = pc[p]
       /\ (pc[p] = "fork_runnable" /\ pc'[p] = "user") =>
             LET i == loc[p].np IN
             /\ ret'[p] = pid'[i] /\ ret'[p] > 0
             /\ state'[i] = "RUNNABLE"
             /\ parent'[i] = p
             /\ signal_handlers'[i] = signal_handlers'[p]
             /\ signals_mask'[i] = signals_mask'[p]
             /\ ~stopped'[i] /\ ~signal_handling'[i]
             /\ trapframe'[i].a0 = 0]_vars

\* the child in slot 3 is at the step after its record was filled by a parent
\* that has a handler installed for signal 5, signal 5 blocked and signal 5
\* pending
C15_Witness ==
  /\ pc[2] = "fork_parent" /\ loc[2].np = 3
  /\ state[3] = "USED" /\ pid[3] = 3
  /\ signal_handlers[3][5] \in DOMAIN UserDesc
  /\ 5 \in signals_mask[3]
  /\ pending_signals[2] = {5}
  /\ pending_signals[3] = {}
  /\ trapframe[3].a0 = 0

\* the slots in use
InUse == {q \in Procs : state[q] # "UNUSED"}

\* C16: a fork that fails returns -1 and leaves the process table as it
\* found it: the slot its scan stopped at is UNUSED with pid and parent 0, no
\* trap frame, no user memory and its lock free (when every slot was in use
\* that slot is untouched); the set of slots in use, every other record, the
\* caller's own among them, and every lock are as before the failing step
C16_ForkRollback ==
  [][\A p \in Procs :
       (pc[p] = "allocproc" /\ pc'[p] = "user") =>
         LET i == loc[p].i IN
         /\ ret'[p] = -1
         /\ InUse' = InUse
         /\ IF state[i] = "UNUSED"
            THEN /\ state'[i] = "UNUSED"
                 /\ pid'[i] = 0 /\ parent'[i] = 0
                 /\ chan'[i] = 0 /\ ~killed'[i] /\ xstate'[i] = 0
                 /\ trapframe'[i] = ZeroTF
                 /\ umem'[i] = EmptyMem
            ELSE i = NPROC /\ InUse = Procs
         /\ lock' = lock /\ lock'[i] = 0
         /\ wait_lock' = wait_lock
         /\ \A q \in Procs \ {i} :
              /\ state'[q] = state[q] /\ pid'[q] = pid[q]
              /\ parent'[q] = parent[q] /\ chan'[q] = chan[q]
              /\ killed'[q] = killed[q] /\ xstate'[q] = xstate[q]
              /\ signal_handlers'[q] = signal_handlers[q]
              /\ signals_mask'[q] = signals_mask[q]
              /\ pending_signals'[q] = pending_signals[q]
              /\ stopped'[q] = stopped[q]
              /\ signal_handling'[q] = signal_handling[q]
              /\ trapframe'[q] = trapframe[q]
              /\ umem'[q] = umem[q]]_vars

\* the first process is back from a call that returned -1 while its child in
\* slot 2 is alive, so the call was no wait(); pid 3 was handed out, yet slot
\* 3 is UNUSED: a fork() claimed it and rolled back
C16_Witness ==
  /\ pc[initproc] = "user" /\ ret[initproc] = -1
  /\ state[2] \in {"RUNNABLE", "RUNNING"} /\ pid[2] = 2 /\ parent[2] = initproc
  /\ state[3] = "UNUSED" /\ pid[3] = 0 /\ parent[3] = 0
  /\ nextpid = 4

\* ------------------------------------------------------------ masks
\* C17: sigprocmask(mask) returns the mask that was stored when it was called
\* and stores mask without the bits of SIGKILL and SIGSTOP; whatever the
\* processes do (sigprocmask, fork, dispatch of a user handler whose own mask
\* asks for SIGKILL, sigret with or without a handler in flight), no stored
\* mask and no saved mask holds the bit of SIGKILL or SIGSTOP
C17_MaskContract ==
  /\ [](\A p \in Procs :
          /\ signals_mask[p] \cap {SIGKILL, SIGSTOP} = {}
          /\ signals_mask_backup[p] \cap {SIGKILL, SIGSTOP} = {})
  /\ [][\A p \in Receivers : \A mask \in MaskVals :
          Sigprocmask(p, mask) =>
            /\ ret'[p] = MaskInt(signals_mask[p])
            /\ signals_mask'[p] = mask \ {SIGKILL, SIGSTOP}
            /\ signals_mask_backup'[p] = signals_mask_backup[p]]_vars

\* process 2 forked the child in slot 3 under the mask it had stored when it
\* asked for signal 5 and the non-maskable signals, then called sigprocmask
\* again and was handed that stored mask
C17_Witness ==
  /\ pc[2] = "user"
  /\ state[3] = "RUNNABLE" /\ parent[3] = 2
  /\ signals_mask[3] = {5, SIGCONT}
  /\ ret[2] = MaskInt({5, SIGCONT})
  /\ signals_mask[2] = {}

\* ------------------------------------------------------------ locks
\* C18: sched() never panics over the locks its CPU holds: a process that is
\* about to call sched() from sleep() or exit() holds no record lock but its
\* own, whatever kernel calls came before, kill() among them; and a record
\* that is RUNNING is the one some CPU runs, never one the scheduler loop has
\* been handed back
C18_SchedPreconditions ==
  /\ [](panicked # "sched locks")
  /\ [](\A p \in Procs :
          (OnCpu(p) /\ pc[p] \in {"sleep_sched", "exit_zombie"}) =>
            \A q \in Procs \ {p} : lock[q] # CpuOf(p))
  /\ [](\A p \in Procs : state[p] = "RUNNING" => OnCpu(p))

\* C19: whatever fork, exit, wait, sleep, wakeup, reparent and kill do on the
\* CPUs, a CPU that acquires wait_lock holds no record lock at that step, and
\* no lock is held by a CPU whose thread is in user mode or by a CPU that runs
\* no thread: a lock so held is never released, and every thread that comes
\* to acquire it waits forever
C19_LockOrder ==
  /\ [][\A c \in CPUs :
          (wait_lock' = c /\ wait_lock # c) => \A q \in Procs : lock[q] # c]_vars
  /\ [](\A c \in CPUs :
          (wait_lock = c \/ \E q \in Procs : lock[q] = c) =>
            (cpu_proc[c] # 0 /\ pc[cpu_proc[c]] # "user"))

\* ------------------------------------------------------------ kill and sleep
\* C20: once SIGKILL has been raised by kill() against a process that is
\* SLEEPING, the process leaves SLEEPING (it is made RUNNABLE, to be marked
\* killed and unwind), whether or not a wakeup() on its channel ever comes;
\* the runs in which the kernel has panicked are left aside
C20_KillWakesSleeper ==
  \A p \in Procs :
    (state[p] = "SLEEPING" /\ SIGKILL \in pending_signals[p])
      ~> (state[p] # "SLEEPING" \/ panicked # "none")

\* ------------------------------------------------------------ lock discipline
\* the fields of record q that its lock protects
Protected(q) ==
  <<state[q], pid[q], killed[q], xstate[q], chan[q], signal_handlers[q],
    signals_mask[q], pending_signals[q], stopped[q], signal_handling[q],
    signals_mask_backup[q], user_tf_backup[q]>>

\* the step is one of the thread that runs on CPU c
HolderSteps(c) == cpu_proc[c] # 0 /\ pc'[cpu_proc[c]] # pc[cpu_proc[c]]

\* C21: a step that writes a protected field of a record is taken with the
\* record's lock: the lock is free when the step begins (the step takes it and
\* gives it back) or it is held by the CPU whose thread takes the step; never
\* while another CPU holds it.  The same for the parent pointer and wait_lock
C21_LockDiscipline ==
  [][\A q \in Procs :
       /\ Protected(q)' # Protected(q) => (lock[q] = 0 \/ HolderSteps(lock[q]))
       /\ parent'[q] # parent[q] => (wait_lock = 0 \/ HolderSteps(wait_lock))]_vars

\* ------------------------------------------------------------ states
\* C22: a record changes state only along these edges, each by the operation
\* that owns it: UNUSED -> USED by the allocproc() of a fork, USED -> RUNNABLE
\* by that fork, RUNNABLE -> RUNNING by a scheduler loop that takes the record
\* for its CPU, RUNNING -> RUNNABLE by the record's own yield, RUNNING ->
\* SLEEPING by its own sleep, SLEEPING -> RUNNABLE by a wakeup on the channel
\* it sleeps on, RUNNING -> ZOMBIE by its own exit, ZOMBIE -> UNUSED by the
\* wait() of its parent, which returns its pid
C22_StateMachine ==
  [][\A q \in Procs :
       state'[q] # state[q] =>
         \/ /\ state[q] = "UNUSED" /\ state'[q] = "USED"
            /\ \E p \in Procs \ {q} :
                 pc[p] = "allocproc" /\ pc'[p] = "fork_parent" /\ loc'[p].np = q
         \/ /\ state[q] = "USED" /\ state'[q] = "RUNNABLE"
            /\ \E p \in Procs \ {q} :
                 pc[p] = "fork_runnable" /\ pc'[p] = "user" /\ loc[p].np = q
         \/ /\ state[q] = "RUNNABLE" /\ state'[q] = "RUNNING"
            /\ \E c \in CPUs :
                 cpu_proc[c] = 0 /\ sidx[c] = q /\ cpu_proc'[c] = q /\ lock'[q] = c
         \/ /\ state[q] = "RUNNING" /\ state'[q] = "RUNNABLE"
            /\ OnCpu(q) /\ ~OnCpu(q)' /\ pc'[q] \in {"yield_ret", "sh_yield_ret"}
         \/ /\ state[q] = "RUNNING" /\ state'[q] = "SLEEPING"
            /\ OnCpu(q) /\ ~OnCpu(q)' /\ pc[q] = "sleep_sched"
            /\ chan'[q] = loc[q].a2
         \/ /\ state[q] = "SLEEPING" /\ state'[q] = "RUNNABLE"
            /\ \E p \in Procs \ {q} :
                 \/ pc[p] = "reparent_wakeup" /\ chan[q] = initproc
                 \/ pc[p] = "exit_wakeup" /\ chan[q] = parent[p]
         \/ /\ state[q] = "RUNNING" /\ state'[q] = "ZOMBIE"
            /\ OnCpu(q) /\ ~OnCpu(q)' /\ pc[q] = "exit_zombie"
         \/ /\ state[q] = "ZOMBIE" /\ state'[q] = "UNUSED"
            /\ \E p \in Procs \ {q} :
                 pc[p] = "wait_scan" /\ parent[q] = p /\ ret'[p] = pid[q]]_vars

\* the first process sleeps in wait() after it has reaped a child whose exit
\* status it holds, and slot 2, free again, runs a later child under pid 3
C22_Witness ==
  /\ state[initproc] = "SLEEPING" /\ chan[initproc] = initproc
  /\ umem[initproc].status \in ExitStatuses
  /\ state[2] = "RUNNING" /\ pid[2] = 3 /\ pc[2] = "user"
  /\ state[3] = "UNUSED"

\* ------------------------------------------------------------ CPUs
\* C23: with several CPUs in scheduler(), no record is the current process of
\* two CPUs; a record becomes the current process of a CPU only in a step in
\* which that CPU, idle in its loop, takes the record's lock and moves it
\* from RUNNABLE to RUNNING; there are never more RUNNING records than CPUs
C23_SingleExecution ==
  /\ [](\A c \in CPUs : \A d \in CPUs \ {c} :
          cpu_proc[c] # 0 => cpu_proc[c] # cpu_proc[d])
  /\ [](Cardinality({p \in Procs : state[p] = "RUNNING"}) <= NCPU)
  /\ [][\A c \in CPUs :
          (cpu_proc'[c] # cpu_proc[c] /\ cpu_proc'[c] # 0) =>
            LET q == cpu_proc'[c] IN
            /\ cpu_proc[c] = 0
            /\ state[q] = "RUNNABLE" /\ state'[q] = "RUNNING"
            /\ lock[q] = 0 /\ lock'[q] = c]_vars

\* both CPUs run a process, neither the one it ran first, while a third
\* record is RUNNABLE and waits for a CPU
C23_Witness ==
  /\ cpu_proc[1] = 3 /\ cpu_proc[2] = initproc
  /\ state[3] = "RUNNING" /\ state[initproc] = "RUNNING"
  /\ state[2] = "RUNNABLE"

====
